---- MODULE Spec2Model ----
(***************************************************************************)
(* Model of src/api/api_services/geminiService.py: the two operations      *)
(* generate_summary and perform_privacy_validation, each one blocking     *)
(* request to the LLM provider followed by the interpretation of the       *)
(* provider's answer.  The provider is the environment: it raises, or it   *)
(* answers with a response object exposing .text and .parsed.              *)
(*                                                                         *)
(* Python strings are sequences of one-character strings.  The raw JSON    *)
(* text of an audit response is kept at the level of JSON lexemes (a       *)
(* sequence of tokens); json.loads is the recursive-descent decoder over   *)
(* them.  Numbers are counted in tenths: Dec(0, 9) is 0.9, Dec(100, 0) is  *)
(* 100.                                                                    *)
(***************************************************************************)
EXTENDS Integers, Sequences, FiniteSets, TLC

VARIABLES pc, fn, original_text, sanitized_text, request, requests,
          response, outcome, printed

vars == <<pc, fn, original_text, sanitized_text, request, requests,
          response, outcome, printed>>

(***************************************************************************)
(* Bounds of the model.                                                    *)
(***************************************************************************)
\* Input texts run up to MaxOver characters past the sample limit.
MaxOver == 1
\* Raw responses include every prefix of a valid document cut after at most
\* MaxCut lexemes.
MaxCut == 4

(***************************************************************************)
(* Python values.                                                          *)
(***************************************************************************)
Dec(whole, tenths) == whole * 10 + tenths

PyNone == [t |-> "none"]
Bool(b) == [t |-> "bool", bool |-> b]
Num(n) == [t |-> "num", num |-> n]
Str(s) == [t |-> "str", str |-> s]
List(xs) == [t |-> "list", items |-> xs]
Dict(m) == [t |-> "dict", map |-> m]

EmptyMap == [k \in {} |-> PyNone]

\* bool(v): the truth value Python's `if v` and `v or w` test.
Truthy(v) ==
  CASE v.t = "none" -> FALSE
    [] v.t = "bool" -> v.bool
    [] v.t = "num" -> v.num # 0
    [] v.t = "str" -> v.str # <<>>
    [] v.t = "list" -> v.items # <<>>
    [] v.t = "dict" -> DOMAIN v.map # {}

\* a or b
Or(a, b) == IF Truthy(a) THEN a ELSE b

Min(a, b) == IF a < b THEN a ELSE b

(***************************************************************************)
(* String literals of the source.                                          *)
(***************************************************************************)
K_score == <<"s", "c", "o", "r", "e">>
K_summary == <<"s", "u", "m", "m", "a", "r", "y">>
K_leaks == <<"l", "e", "a", "k", "s">>
K_accuracy_metrics ==
  << "a", "c", "c", "u", "r", "a", "c", "y", "_", "m", "e", "t", "r", "i",
     "c", "s" >>
K_item == <<"i", "t", "e", "m">>
K_type == <<"t", "y", "p", "e">>
K_context == <<"c", "o", "n", "t", "e", "x", "t">>
K_severity == <<"s", "e", "v", "e", "r", "i", "t", "y">>
K_precision == <<"p", "r", "e", "c", "i", "s", "i", "o", "n">>
K_recall == <<"r", "e", "c", "a", "l", "l">>

S_Critical == <<"C", "r", "i", "t", "i", "c", "a", "l">>
S_Warning == <<"W", "a", "r", "n", "i", "n", "g">>
S_Low == <<"L", "o", "w">>
S_MainSt == <<"1", "2", "3", " ", "M", "a", "i", "n", " ", "S", "t">>
S_Address == <<"a", "d", "d", "r", "e", "s", "s">>
S_Dots == <<".", ".", ".">>
S_Clean == <<"c", "l", "e", "a", "n">>

FallbackSummary ==
  << "A", "u", "d", "i", "t", " ", "s", "e", "r", "v", "i", "c", "e", " ",
     "e", "n", "c", "o", "u", "n", "t", "e", "r", "e", "d", " ", "a", "n",
     " ", "e", "r", "r", "o", "r", ".", " ", "M", "a", "n", "u", "a", "l",
     " ", "r", "e", "v", "i", "e", "w", " ", "s", "u", "g", "g", "e", "s",
     "t", "e", "d", "." >>

NoSummaryGenerated ==
  << "N", "o", " ", "s", "u", "m", "m", "a", "r", "y", " ", "g", "e", "n",
     "e", "r", "a", "t", "e", "d", "." >>

EncounteredAnError ==
  << "e", "n", "c", "o", "u", "n", "t", "e", "r", "e", "d", " ", "a", "n",
     " ", "e", "r", "r", "o", "r" >>

PromptHead ==
  << "\n", " ", " ", " ", " ", " ", " ", " ", " ", "O", "R", "I", "G", "I",
     "N", "A", "L", " ", "T", "E", "X", "T", " ", "S", "A", "M", "P", "L",
     "E", ":", "\n", " ", " ", " ", " ", " ", " ", " ", " " >>

PromptMid ==
  << "\n", "\n", " ", " ", " ", " ", " ", " ", " ", " ", "S", "A", "N", "I",
     "T", "I", "Z", "E", "D", " ", "T", "E", "X", "T", " ", "S", "A", "M",
     "P", "L", "E", ":", "\n", " ", " ", " ", " ", " ", " ", " ", " " >>

PromptTail ==
  << "\n", " ", " ", " ", " ", " ", " ", " ", " ", "\n", " ", " ", " ", " ",
     " ", " ", " ", " ", "A", "u", "d", "i", "t", " ", "t", "h", "e", " ",
     "S", "A", "N", "I", "T", "I", "Z", "E", "D", " ", "s", "a", "m", "p",
     "l", "e", " ", "a", "g", "a", "i", "n", "s", "t", " ", "t", "h", "e",
     " ", "O", "R", "I", "G", "I", "N", "A", "L", " ", "s", "a", "m", "p",
     "l", "e", ".", "\n", " ", " ", " ", " ", " ", " ", " ", " " >>

OriginalLabel ==
  << "O", "R", "I", "G", "I", "N", "A", "L", " ", "T", "E", "X", "T", " ",
     "S", "A", "M", "P", "L", "E", ":" >>

SanitizedLabel ==
  << "S", "A", "N", "I", "T", "I", "Z", "E", "D", " ", "T", "E", "X", "T",
     " ", "S", "A", "M", "P", "L", "E", ":" >>

(***************************************************************************)
(* JSON text, as a sequence of lexemes.                                    *)
(***************************************************************************)
LBrace == [k |-> "{"]
RBrace == [k |-> "}"]
LBrack == [k |-> "["]
RBrack == [k |-> "]"]
Colon == [k |-> ":"]
Comma == [k |-> ","]
Null == [k |-> "null"]
True == [k |-> "true"]
False == [k |-> "false"]
Space == [k |-> "ws"]
Junk == [k |-> "junk"]
StrTok(s) == [k |-> "str", str |-> s]
NumTok(n) == [k |-> "num", num |-> n]

\* The literal '{}' of line 154.
EmptyObjectText == <<LBrace, RBrace>>

Decoded(v, j) == [ok |-> TRUE, val |-> v, end |-> j]
JSONDecodeError == [ok |-> FALSE]

\* dict[key] = val on a dict under construction: a repeated key keeps the
\* last value.
Put(m, key, val) ==
  [x \in DOMAIN m \cup {key} |-> IF x = key THEN val ELSE m[x]]

SkipSpace(toks) == SelectSeq(toks, LAMBDA tk : tk.k # "ws")

RECURSIVE scan_once(_, _)
RECURSIVE JSONObject(_, _, _)
RECURSIVE JSONArray(_, _, _)

\* The members of an object from lexeme i on, after '{' or ','.
JSONObject(toks, i, acc) ==
  IF i + 2 > Len(toks) \/ toks[i].k # "str" \/ toks[i + 1].k # ":"
  THEN JSONDecodeError
  ELSE LET r == scan_once(toks, i + 2) IN
       IF ~r.ok \/ r.end > Len(toks) THEN JSONDecodeError
       ELSE LET m == Put(acc, toks[i].str, r.val) IN
            CASE toks[r.end].k = "}" -> Decoded(Dict(m), r.end + 1)
              [] toks[r.end].k = "," -> JSONObject(toks, r.end + 1, m)
              [] OTHER -> JSONDecodeError

\* The elements of an array from lexeme i on, after '[' or ','.
JSONArray(toks, i, acc) ==
  LET r == scan_once(toks, i) IN
  IF ~r.ok \/ r.end > Len(toks) THEN JSONDecodeError
  ELSE LET xs == Append(acc, r.val) IN
       CASE toks[r.end].k = "]" -> Decoded(List(xs), r.end + 1)
         [] toks[r.end].k = "," -> JSONArray(toks, r.end + 1, xs)
         [] OTHER -> JSONDecodeError

\* One JSON value starting at lexeme i.
scan_once(toks, i) ==
  IF i > Len(toks) THEN JSONDecodeError
  ELSE LET tk == toks[i] IN
       CASE tk.k = "str" -> Decoded(Str(tk.str), i + 1)
         [] tk.k = "num" -> Decoded(Num(tk.num), i + 1)
         [] tk.k = "null" -> Decoded(PyNone, i + 1)
         [] tk.k = "true" -> Decoded(Bool(TRUE), i + 1)
         [] tk.k = "false" -> Decoded(Bool(FALSE), i + 1)
         [] tk.k = "{" ->
              IF i + 1 <= Len(toks) /\ toks[i + 1].k = "}"
              THEN Decoded(Dict(EmptyMap), i + 2)
              ELSE JSONObject(toks, i + 1, EmptyMap)
         [] tk.k = "[" ->
              IF i + 1 <= Len(toks) /\ toks[i + 1].k = "]"
              THEN Decoded(List(<<>>), i + 2)
              ELSE JSONArray(toks, i + 1, <<>>)
         [] OTHER -> JSONDecodeError

\* json.loads(text): one value, and nothing but white space around it.
json_loads(text) ==
  LET toks == SkipSpace(text)
      r == scan_once(toks, 1)
  IN IF r.ok /\ r.end = Len(toks) + 1 THEN r ELSE JSONDecodeError

\* The order in which the provider writes the keys of an object.
KeyOrder ==
  <<K_score, K_summary, K_leaks, K_accuracy_metrics, K_item, K_type,
    K_context, K_severity, K_precision, K_recall>>

RECURSIVE dumps(_)
RECURSIVE DumpMembers(_, _)
RECURSIVE DumpElements(_, _)

DumpMembers(m, keys) ==
  IF keys = <<>> THEN <<>>
  ELSE <<StrTok(Head(keys)), Colon>> \o dumps(m[Head(keys)])
       \o (IF Len(keys) > 1 THEN <<Comma>> ELSE <<>>)
       \o DumpMembers(m, Tail(keys))

DumpElements(xs, i) ==
  IF i > Len(xs) THEN <<>>
  ELSE dumps(xs[i]) \o (IF i < Len(xs) THEN <<Comma>> ELSE <<>>)
       \o DumpElements(xs, i + 1)

\* The JSON document the provider emits for a value.
dumps(v) ==
  CASE v.t = "none" -> <<Null>>
    [] v.t = "bool" -> IF v.bool THEN <<True>> ELSE <<False>>
    [] v.t = "num" -> <<NumTok(v.num)>>
    [] v.t = "str" -> <<StrTok(v.str)>>
    [] v.t = "list" -> <<LBrack>> \o DumpElements(v.items, 1) \o <<RBrack>>
    [] v.t = "dict" ->
         <<LBrace>>
         \o DumpMembers(v.map, SelectSeq(KeyOrder, LAMBDA x : x \in DOMAIN v.map))
         \o <<RBrace>>

(***************************************************************************)
(* Inputs: the texts a caller passes.                                      *)
(***************************************************************************)
\* [:20000] of lines 91 and 92.
SampleLimit == 20000

ScenarioOriginal ==
  << "J", "o", "h", "n", " ", "S", "m", "i", "t", "h", " ", "l", "i",
     "v", "e", "s", " ", "a", "t", " ", "1", "2", "3", " ", "M", "a",
     "i", "n", " ", "S", "t" >>

ScenarioSanitized ==
  << "[", "R", "E", "D", "A", "C", "T", "E", "D", "_", "N", "A", "M",
     "E", "]", " ", "l", "i", "v", "e", "s", " ", "a", "t", " ", "1",
     "2", "3", " ", "M", "a", "i", "n", " ", "S", "t" >>

\* A document of n characters: the scenario's sentence over and over.
Document(n) ==
  [i \in 1..n |-> ScenarioOriginal[((i - 1) % Len(ScenarioOriginal)) + 1]]

Texts ==
  {<<>>, ScenarioOriginal, ScenarioSanitized, Document(SampleLimit)}
  \cup {Document(SampleLimit + d) : d \in 1..MaxOver}

(***************************************************************************)
(* Module state and constants (lines 27-62).                               *)
(***************************************************************************)
SUMMARY_SYSTEM_INSTRUCTION == "SUMMARY_SYSTEM_INSTRUCTION"
VALIDATION_SYSTEM_INSTRUCTION == "VALIDATION_SYSTEM_INSTRUCTION"

\* The schema of lines 107-135: per object, the declared type of each
\* property and the properties it requires.
response_schema ==
  [ properties |->
      (K_score :> "num") @@ (K_summary :> "str") @@ (K_leaks :> "list")
      @@ (K_accuracy_metrics :> "dict"),
    required |-> {K_score, K_summary, K_leaks, K_accuracy_metrics},
    leak |->
      [ properties |->
          (K_item :> "str") @@ (K_type :> "str") @@ (K_context :> "str")
          @@ (K_severity :> "str"),
        required |-> {K_item, K_type, K_context, K_severity} ],
    accuracy_metrics |->
      [ properties |-> (K_precision :> "num") @@ (K_recall :> "num"),
        required |-> {K_precision, K_recall} ] ]

\* Variant: a fallback that reports the worst score instead of the best.
FALLBACK_score_zero ==
  Dict((K_score :> Num(Dec(0, 0)))
       @@ (K_leaks :> List(<<>>))
       @@ (K_summary :> Str(FallbackSummary))
       @@ (K_accuracy_metrics :>
             Dict((K_precision :> Num(Dec(1, 0)))
                  @@ (K_recall :> Num(Dec(1, 0))))))

\* The value lines 159-164 build.
FALLBACK ==
  Dict((K_score :> Num(Dec(100, 0)))
       @@ (K_leaks :> List(<<>>))
       @@ (K_summary :> Str(FallbackSummary))
       @@ (K_accuracy_metrics :>
             Dict((K_precision :> Num(Dec(1, 0)))
                  @@ (K_recall :> Num(Dec(1, 0))))))

(***************************************************************************)
(* The provider: what client.models.generate_content may do.               *)
(***************************************************************************)
ProviderErrors == {"ConnectionError", "ServerError", "TimeoutError"}

Raised(e) == [kind |-> "raise", exc |-> e]
Responded(parsed, text) == [kind |-> "response", parsed |-> parsed, text |-> text]
NoResponse == [kind |-> "none"]

Leak(item, type, context, severity) ==
  Dict((K_item :> Str(item)) @@ (K_type :> Str(type))
       @@ (K_context :> Str(context)) @@ (K_severity :> Str(severity)))

Metrics(precision, recall) ==
  Dict((K_precision :> Num(precision)) @@ (K_recall :> Num(recall)))

Audit(score, leaks, summary, metrics) ==
  Dict((K_score :> Num(score)) @@ (K_summary :> Str(summary))
       @@ (K_leaks :> List(leaks)) @@ (K_accuracy_metrics :> metrics))

\* dict without one key
Without(d, key) == Dict([x \in DOMAIN d.map \ {key} |-> d.map[x]])

ScenarioLeak == Leak(S_MainSt, S_Address, S_Dots, S_Critical)

\* The audit of the end-to-end scenario.
ScenarioAudit ==
  Audit(Dec(60, 0), <<ScenarioLeak>>, S_Dots, Metrics(Dec(0, 9), Dec(0, 8)))

CleanAudit == Audit(Dec(100, 0), <<>>, S_Clean, Metrics(Dec(1, 0), Dec(1, 0)))

TwoLeakAudit ==
  Audit(Dec(0, 0),
        <<ScenarioLeak, Leak(S_Clean, S_Address, <<>>, S_Warning)>>,
        <<>>, Metrics(Dec(0, 0), Dec(0, 5)))

\* Objects of the right shape whose values leave the documented ranges.
ScoreTooHigh == Audit(Dec(150, 0), <<>>, S_Clean, Metrics(Dec(1, 0), Dec(1, 0)))

SeverityLow ==
  Audit(Dec(60, 0), <<Leak(S_MainSt, S_Address, S_Dots, S_Low)>>, S_Dots,
        Metrics(Dec(0, 9), Dec(0, 8)))

\* Objects that miss a required property.
NoSummary == Without(ScenarioAudit, K_summary)

LeakWithoutContext ==
  Audit(Dec(60, 0), <<Without(ScenarioLeak, K_context)>>, S_Dots,
        Metrics(Dec(0, 9), Dec(0, 8)))

ProviderObjects ==
  {ScenarioAudit, CleanAudit, TwoLeakAudit, ScoreTooHigh, SeverityLow,
   NoSummary, LeakWithoutContext}

\* response.parsed
ParsedValues == {PyNone, Dict(EmptyMap), List(<<>>)} \cup ProviderObjects

\* response.text of an audit response: absent, empty, a JSON document, or
\* a document cut short or followed by more.
RawTexts ==
  {PyNone, Str(<<>>), Str(<<Space>>), Str(<<Junk>>)}
  \cup {Str(dumps(v)) : v \in ProviderObjects \cup {List(<<>>)}}
  \cup {Str(SubSeq(dumps(ScenarioAudit), 1, n)) : n \in 1..MaxCut}
  \cup {Str(dumps(CleanAudit) \o <<RBrace>>)}

\* response.text of a summary response.
SummaryTexts == {PyNone, Str(<<>>), Str(S_Dots), Str(NoSummaryGenerated), Str(S_Clean)}

(***************************************************************************)
(* generate_summary (lines 66-82).                                         *)
(***************************************************************************)
Return(v) == [kind |-> "return", value |-> v]
Raise(e) == [kind |-> "raise", exc |-> e]
NoOutcome == [kind |-> "none"]
NoRequest == [model |-> "none"]
Printed(prefix, e) == [prefix |-> prefix, error |-> e]
NothingPrinted == [prefix |-> "", error |-> ""]

\* Lines 71-78.
SummaryRequest(text) ==
  [ model |-> "gemini-2.0-flash",
    contents |-> text,
    system_instruction |-> SUMMARY_SYSTEM_INSTRUCTION,
    temperature |-> Dec(0, 3) ]

\* Variant: the response text returned as it is, with no placeholder.
generate_summary_try_no_placeholder(resp) ==
  IF resp.kind = "raise" THEN Raise(resp.exc) ELSE Return(resp.text)

\* Lines 71-79: the try block, given what generate_content did.
generate_summary_try(resp) ==
  IF resp.kind = "raise" THEN Raise(resp.exc)
  ELSE Return(Or(resp.text, Str(NoSummaryGenerated)))

\* Variant: the handler absorbs the failure and returns the placeholder.
generate_summary_except_swallow(error) == Return(Str(NoSummaryGenerated))

\* Lines 80-82.
generate_summary_except(error) == Raise(error)

generate_summary_outcome(resp) ==
  LET t == generate_summary_try(resp) IN
  IF t.kind = "raise" THEN generate_summary_except(t.exc) ELSE t

(***************************************************************************)
(* perform_privacy_validation (lines 85-164).                              *)
(***************************************************************************)
\* Variant: text[-20000:], the end of the text instead of its start.
Sample_tail(text) ==
  SubSeq(text, Len(text) - Min(Len(text), SampleLimit) + 1, Len(text))

\* text[:20000]
Sample(text) == SubSeq(text, 1, Min(Len(text), SampleLimit))

\* Lines 94-102.
Prompt(original_sample, sanitized_sample) ==
  PromptHead \o original_sample \o PromptMid \o sanitized_sample \o PromptTail

\* Lines 137-145.
ValidationRequest(original, sanitized) ==
  [ model |-> "gemini-2.0-pro-exp-02-05",
    contents |-> Prompt(Sample(original), Sample(sanitized)),
    system_instruction |-> VALIDATION_SYSTEM_INSTRUCTION,
    response_mime_type |-> "application/json",
    response_schema |-> response_schema ]

\* Variant: an empty or absent text is decoded as it is, with no '{}'.
TextOrEmptyObject_no_default(text) == Or(text, Str(<<>>))

\* response.text or '{}'
TextOrEmptyObject(text) == Or(text, Str(EmptyObjectText))

\* Variant: the raw text is always decoded, response.parsed never used.
InterpretResponse_text_only(resp) ==
  LET r == json_loads(TextOrEmptyObject(resp.text).str) IN
  IF r.ok THEN Return(r.val) ELSE Raise("JSONDecodeError")

\* Lines 148-154.
InterpretResponse(resp) ==
  IF Truthy(resp.parsed) THEN Return(resp.parsed)
  ELSE LET r == json_loads(TextOrEmptyObject(resp.text).str) IN
       IF r.ok THEN Return(r.val) ELSE Raise("JSONDecodeError")

\* Lines 89-154: the try block, given what generate_content did.
perform_privacy_validation_try(resp) ==
  IF resp.kind = "raise" THEN Raise(resp.exc) ELSE InterpretResponse(resp)

\* Variant: the handler logs and raises again, as generate_summary's does.
perform_privacy_validation_except_reraise(error) == Raise(error)

\* Lines 156-164.
perform_privacy_validation_except(error) == Return(FALLBACK)

perform_privacy_validation_outcome(resp) ==
  LET t == perform_privacy_validation_try(resp) IN
  IF t.kind = "raise" THEN perform_privacy_validation_except(t.exc) ELSE t

(***************************************************************************)
(* The state machine.                                                      *)
(***************************************************************************)
Init ==
  /\ pc = "idle"
  /\ fn = "none"
  /\ original_text = <<>>
  /\ sanitized_text = <<>>
  /\ request = NoRequest
  /\ requests = 0
  /\ response = NoResponse
  /\ outcome = NoOutcome
  /\ printed = NothingPrinted

\* A caller enters generate_summary, which sends its request.
generate_summary_call(text) ==
  /\ pc = "idle"
  /\ pc' = "awaiting"
  /\ fn' = "generate_summary"
  /\ sanitized_text' = text
  /\ request' = SummaryRequest(text)
  /\ requests' = requests + 1
  /\ UNCHANGED <<original_text, response, outcome, printed>>

\* generate_content returns or raises, and generate_summary runs to its end.
generate_summary_complete(resp) ==
  /\ pc = "awaiting"
  /\ fn = "generate_summary"
  /\ pc' = "done"
  /\ response' = resp
  /\ outcome' = generate_summary_outcome(resp)
  /\ printed' = IF generate_summary_try(resp).kind = "raise"
                THEN Printed("Error during Gemini summarization", resp.exc)
                ELSE NothingPrinted
  /\ UNCHANGED <<fn, original_text, sanitized_text, request, requests>>

\* A caller enters perform_privacy_validation, which samples the texts,
\* builds the prompt and sends its request.
perform_privacy_validation_call(original, sanitized) ==
  /\ pc = "idle"
  /\ pc' = "awaiting"
  /\ fn' = "perform_privacy_validation"
  /\ original_text' = original
  /\ sanitized_text' = sanitized
  /\ request' = ValidationRequest(original, sanitized)
  /\ requests' = requests + 1
  /\ UNCHANGED <<response, outcome, printed>>

\* generate_content returns or raises, and perform_privacy_validation runs
\* to its end.
perform_privacy_validation_complete(resp) ==
  /\ pc = "awaiting"
  /\ fn = "perform_privacy_validation"
  /\ pc' = "done"
  /\ response' = resp
  /\ outcome' = perform_privacy_validation_outcome(resp)
  /\ printed' = LET t == perform_privacy_validation_try(resp) IN
                IF t.kind = "raise"
                THEN Printed("Privacy validation failed", t.exc)
                ELSE NothingPrinted
  /\ UNCHANGED <<fn, original_text, sanitized_text, request, requests>>

\* The caller takes the outcome; nothing of the call is kept.
call_ends ==
  /\ pc = "done"
  /\ pc' = "idle"
  /\ fn' = "none"
  /\ original_text' = <<>>
  /\ sanitized_text' = <<>>
  /\ request' = NoRequest
  /\ requests' = 0
  /\ response' = NoResponse
  /\ outcome' = NoOutcome
  /\ printed' = NothingPrinted

SummaryResponses ==
  {Raised(e) : e \in ProviderErrors}
  \cup {Responded(PyNone, t) : t \in SummaryTexts}

ValidationResponses ==
  {Raised(e) : e \in ProviderErrors}
  \cup {Responded(p, t) : p \in ParsedValues, t \in RawTexts}

Next ==
  \/ \E text \in Texts : generate_summary_call(text)
  \/ \E resp \in SummaryResponses : generate_summary_complete(resp)
  \/ \E original \in Texts, sanitized \in Texts :
       perform_privacy_validation_call(original, sanitized)
  \/ \E resp \in ValidationResponses : perform_privacy_validation_complete(resp)
  \/ call_ends

Spec == Init /\ [][Next]_vars

(***************************************************************************)
(* Vocabulary of the properties.                                           *)
(***************************************************************************)
Done(f) == pc = "done" /\ fn = f

\* sub occurs in s
Contains(s, sub) ==
  \E i \in 1..(Len(s) - Len(sub) + 1) : SubSeq(s, i, i + Len(sub) - 1) = sub

\* d is an object that has the required properties of schema sch, each
\* property of the declared type.
Conforms(d, sch) ==
  /\ d.t = "dict"
  /\ sch.required \subseteq DOMAIN d.map
  /\ \A key \in DOMAIN d.map \cap DOMAIN sch.properties :
       d.map[key].t = sch.properties[key]

\* v conforms to response_schema, nested objects included.
SchemaValid(v) ==
  /\ Conforms(v, response_schema)
  /\ \A i \in 1..Len(v.map[K_leaks].items) :
       Conforms(v.map[K_leaks].items[i], response_schema.leak)
  /\ Conforms(v.map[K_accuracy_metrics], response_schema.accuracy_metrics)

\* v is an object that lacks one of the four top-level fields, or one of
\* whose leaks lacks one of a leak's four fields.
MissingRequiredField(v) ==
  /\ v.t = "dict"
  /\ \/ ~({K_score, K_summary, K_leaks, K_accuracy_metrics} \subseteq DOMAIN v.map)
     \/ /\ K_leaks \in DOMAIN v.map
        /\ v.map[K_leaks].t = "list"
        /\ \E i \in 1..Len(v.map[K_leaks].items) :
             LET leak == v.map[K_leaks].items[i] IN
             /\ leak.t = "dict"
             /\ ~({K_item, K_type, K_context, K_severity} \subseteq DOMAIN leak.map)

\* v satisfies the ValidationResult data model: the shape, and the ranges
\* of score, precision, recall and severity.
InDataModel(v) ==
  /\ SchemaValid(v)
  /\ v.map[K_score].num \in 0..Dec(100, 0)
  /\ v.map[K_accuracy_metrics].map[K_precision].num \in 0..Dec(1, 0)
  /\ v.map[K_accuracy_metrics].map[K_recall].num \in 0..Dec(1, 0)
  /\ \A i \in 1..Len(v.map[K_leaks].items) :
       v.map[K_leaks].items[i].map[K_severity].str \in {S_Critical, S_Warning}

\* The fallback, written out.
IsFixedFallback(v) ==
  /\ v.t = "dict"
  /\ DOMAIN v.map = {K_score, K_leaks, K_summary, K_accuracy_metrics}
  /\ v.map[K_score] = Num(Dec(100, 0))
  /\ v.map[K_leaks] = List(<<>>)
  /\ v.map[K_summary] = Str(FallbackSummary)
  /\ Contains(v.map[K_summary].str, EncounteredAnError)
  /\ v.map[K_accuracy_metrics].t = "dict"
  /\ DOMAIN v.map[K_accuracy_metrics].map = {K_precision, K_recall}
  /\ v.map[K_accuracy_metrics].map[K_precision] = Num(Dec(1, 0))
  /\ v.map[K_accuracy_metrics].map[K_recall] = Num(Dec(1, 0))

\* v is None or an empty or zero value: `if v` does not take it.
NoneOrEmpty(v) ==
  v \in {PyNone, Bool(FALSE), Num(0), Str(<<>>), List(<<>>), Dict(EmptyMap)}

\* The raw text is present and is no JSON document.
Malformed(text) == text.t = "str" /\ text.str # <<>> /\ ~json_loads(text.str).ok

(***************************************************************************)
(* C1: perform_privacy_validation never propagates an exception: whatever  *)
(* the provider did (raised, answered with a parsed object, with valid,    *)
(* invalid or empty raw text), the call ends by returning a value.         *)
(***************************************************************************)
C1_NeverRaises ==
  Done("perform_privacy_validation") =>
    /\ outcome.kind = "return"
    /\ outcome.value.t \in {"none", "bool", "num", "str", "list", "dict"}

C1_Witness ==
  /\ Done("perform_privacy_validation")
  /\ response.kind = "response"
  /\ response.parsed = PyNone
  /\ Malformed(response.text)
  /\ outcome.kind = "return"

(***************************************************************************)
(* C2: whenever the provider call raises, perform_privacy_validation       *)
(* returns exactly the fixed fallback (score 100, no leaks, precision and  *)
(* recall 1.0, the summary "Audit service encountered an error. Manual     *)
(* review suggested."), whatever the input texts.                          *)
(***************************************************************************)
C2_RaiseGivesFallback ==
  (Done("perform_privacy_validation") /\ response.kind = "raise") =>
    /\ outcome.kind = "return"
    /\ IsFixedFallback(outcome.value)

C2_Witness ==
  /\ Done("perform_privacy_validation")
  /\ response = Raised("TimeoutError")
  /\ Len(original_text) > SampleLimit
  /\ sanitized_text = ScenarioSanitized
  /\ outcome.kind = "return"
  /\ IsFixedFallback(outcome.value)

(***************************************************************************)
(* C3: when the provider answers but the answer is a schema or parse       *)
(* error (malformed raw JSON, or an object missing a required field),      *)
(* perform_privacy_validation returns the fixed fallback, never a partial  *)
(* result built from the provider's data.                                  *)
(***************************************************************************)
C3_SchemaErrorGivesFallback ==
  (Done("perform_privacy_validation") /\ response.kind = "response") =>
    /\ (response.parsed = PyNone /\ Malformed(response.text)) =>
         outcome = Return(FALLBACK)
    /\ \A v \in ProviderObjects :
         (/\ MissingRequiredField(v)
          /\ \/ response.parsed = v
             \/ response.parsed = PyNone /\ response.text = Str(dumps(v))) =>
           outcome = Return(FALLBACK)

(***************************************************************************)
(* C4: when the provider answers with a schema-valid object, as a parsed   *)
(* object or as raw JSON text, perform_privacy_validation returns that     *)
(* object unchanged: all four top-level fields and every leak's four       *)
(* fields are there, and no value differs from the provider's.             *)
(***************************************************************************)
C4_ValidObjectReturnedUnchanged ==
  (Done("perform_privacy_validation") /\ response.kind = "response") =>
    \A v \in ProviderObjects :
      (/\ SchemaValid(v)
       /\ \/ response.parsed = v
          \/ response.parsed = PyNone /\ response.text = Str(dumps(v))) =>
        /\ outcome = Return(v)
        /\ DOMAIN outcome.value.map = {K_score, K_leaks, K_summary, K_accuracy_metrics}
        /\ \A i \in 1..Len(outcome.value.map[K_leaks].items) :
             DOMAIN outcome.value.map[K_leaks].items[i].map
               = {K_item, K_type, K_context, K_severity}

C4_Witness ==
  /\ Done("perform_privacy_validation")
  /\ original_text = ScenarioOriginal
  /\ sanitized_text = ScenarioSanitized
  /\ response = Responded(PyNone, Str(dumps(ScenarioAudit)))
  /\ outcome = Return(ScenarioAudit)

(***************************************************************************)
(* C5: the prompt sent to the provider holds exactly the first             *)
(* min(len, 20000) characters of original_text and of sanitized_text: no   *)
(* character from offset 20000 on, a shorter text whole; the original      *)
(* sample stands under the ORIGINAL TEXT SAMPLE label, before the          *)
(* sanitized sample under the SANITIZED TEXT SAMPLE label.                 *)
(***************************************************************************)
C5_PromptHoldsTruncatedSamples ==
  (pc = "awaiting" /\ fn = "perform_privacy_validation") =>
    LET prompt == request.contents
        n_original == Min(Len(original_text), 20000)
        n_sanitized == Min(Len(sanitized_text), 20000)
        at_original == Len(PromptHead)
        at_sanitized == Len(PromptHead) + n_original + Len(PromptMid)
    IN /\ Len(prompt) = at_sanitized + n_sanitized + Len(PromptTail)
       /\ \A i \in 1..n_original : prompt[at_original + i] = original_text[i]
       /\ \A i \in 1..n_sanitized : prompt[at_sanitized + i] = sanitized_text[i]
       /\ Contains(SubSeq(prompt, 1, at_original), OriginalLabel)
       /\ Contains(SubSeq(prompt, at_original + n_original + 1, at_sanitized),
                   SanitizedLabel)

C5_Witness ==
  /\ pc = "awaiting"
  /\ fn = "perform_privacy_validation"
  /\ Len(original_text) > SampleLimit
  /\ sanitized_text = ScenarioSanitized
  /\ Len(request.contents)
       = Len(PromptHead) + 20000 + Len(PromptMid) + Len(ScenarioSanitized)
         + Len(PromptTail)

(***************************************************************************)
(* C6: every value perform_privacy_validation returns satisfies the        *)
(* ValidationResult data model: score within 0..100, precision and recall  *)
(* within [0, 1], every leak's severity Critical or Warning.               *)
(***************************************************************************)
C6_ResultInDataModel ==
  (Done("perform_privacy_validation") /\ outcome.kind = "return") =>
    InDataModel(outcome.value)

(***************************************************************************)
(* C7: generate_summary returns "No summary generated." whenever the       *)
(* provider answers with an empty or absent body, and the provider's       *)
(* text verbatim whenever that text is not empty.                          *)
(***************************************************************************)
C7_SummaryOrPlaceholder ==
  (Done("generate_summary") /\ response.kind = "response") =>
    IF response.text = PyNone \/ response.text = Str(<<>>)
    THEN outcome = Return(Str(NoSummaryGenerated))
    ELSE outcome = Return(response.text)

C7_Witness ==
  /\ Done("generate_summary")
  /\ response.kind = "response"
  /\ response.text = PyNone
  /\ outcome = Return(Str(NoSummaryGenerated))

(***************************************************************************)
(* C8: when the provider call of generate_summary fails, the same failure  *)
(* reaches the caller: no value is returned, and the call made exactly one *)
(* provider request, with no retry.                                        *)
(***************************************************************************)
C8_SummaryFailurePropagates ==
  (Done("generate_summary") /\ response.kind = "raise") =>
    /\ outcome = Raise(response.exc)
    /\ requests = 1

C8_Witness ==
  /\ Done("generate_summary")
  /\ response = Raised("TimeoutError")
  /\ outcome.kind = "raise"
  /\ requests = 1

(***************************************************************************)
(* C10 as stated: a parsed object the response exposes is returned, the    *)
(* raw text not consulted.                                                 *)
(***************************************************************************)
C10_AnyParsedObjectReturned ==
  (/\ Done("perform_privacy_validation")
   /\ response.kind = "response"
   /\ response.parsed # PyNone) =>
    outcome = Return(response.parsed)

(***************************************************************************)
(* C10, amended: a parsed object that is neither None nor empty is         *)
(* returned whatever the raw text; with response.parsed None or empty the  *)
(* raw text is decoded and returned; with response.parsed None or empty    *)
(* and the raw text empty or absent the result is the empty object {},     *)
(* not the fixed fallback.                                                 *)
(***************************************************************************)
C10_InterpretationOrder ==
  (Done("perform_privacy_validation") /\ response.kind = "response") =>
    /\ ~NoneOrEmpty(response.parsed) =>
         outcome = Return(response.parsed)
    /\ NoneOrEmpty(response.parsed) =>
         /\ \A v \in ProviderObjects \cup {List(<<>>)} :
              response.text = Str(dumps(v)) => outcome = Return(v)
         /\ response.text \in {PyNone, Str(<<>>)} =>
              /\ outcome = Return(Dict(EmptyMap))
              /\ DOMAIN outcome.value.map = {}
              /\ ~IsFixedFallback(outcome.value)

C10_Witness ==
  /\ Done("perform_privacy_validation")
  /\ response = Responded(PyNone, Str(<<>>))
  /\ outcome = Return(Dict(EmptyMap))

====
